---- MODULE Spec2Model ----
(***************************************************************************)
(* Model of heat_solver_utils.py: the accessors of the equipment           *)
(* configuration document (JSON) and of the time-series table (CSV).       *)
(*                                                                         *)
(* The time-series file is a sequence of lines, each line a sequence of    *)
(* cell texts; line 1 is the header.  csv.DictReader and csv.DictWriter    *)
(* are modelled by what they do to such a file: a line shorter than the    *)
(* header reads as None for the missing fields, a longer one keeps the     *)
(* extra cells under the key None, blank lines are skipped, and the writer *)
(* turns None into an empty cell, a float into its repr, and refuses a     *)
(* dict holding a key that is no field name.                               *)
(*                                                                         *)
(* Python floats are integers counting hundredths (8000 is 80.0).          *)
(* Assumed of the files: the header names are distinct and hold time, t2   *)
(* and F2, cells need no quoting, and every row holds its input pair as    *)
(* text that float() accepts.                                              *)
(***************************************************************************)
EXTENDS Integers, Sequences, FiniteSets, TLC

VARIABLES
    csv,      \* content of timeseries.csv: lines of cells, header first
    config,   \* content of equipment_config.json: the parsed document
    ret,      \* the call that returned last: op, arguments, outcome, value
    old,      \* [csv, config] as they were when that call started
    start,    \* [csv, config] as they were when the run started
    log,      \* the write_timeseries calls made so far, oldest first
    budget,   \* how many write_timeseries calls the caller makes in this run
    writers,  \* concurrent run: per writer its call, position and locals
    overlap   \* concurrent run: some call started while another was running

vars == <<csv, config, ret, old, start, log, budget, writers, overlap>>

(* ---------------------------------------------------------------- bounds *)

\* rows of the table the run starts from
MaxRows == 2
\* output fields one write_timeseries call supplies (the test call apart)
MaxSupplied == 2

(* --------------------------------------------------------- Python values *)

PyNone == [t |-> "None"]
PyStr(s) == [t |-> "str", s |-> s]
PyFloat(x) == [t |-> "float", x |-> x]
PyList(l) == [t |-> "list", l |-> l]

Range(s) == {s[i] : i \in 1..Len(s)}

RECURSIVE Reverse(_)
Reverse(s) == IF s = <<>> THEN <<>> ELSE Append(Reverse(Tail(s)), Head(s))

DigitStr == <<"0", "1", "2", "3", "4", "5", "6", "7", "8", "9">>

RECURSIVE NatStr(_)
NatStr(n) == IF n < 10 THEN DigitStr[n + 1]
             ELSE NatStr(n \div 10) \o DigitStr[(n % 10) + 1]

\* str(x) of a float x >= 0 with at most two decimals: "80.0", "0.75", "45.2"
float_repr(x) ==
    NatStr(x \div 100) \o "." \o
    (IF x % 10 = 0 THEN DigitStr[((x % 100) \div 10) + 1]
     ELSE DigitStr[((x % 100) \div 10) + 1] \o DigitStr[(x % 10) + 1])

\* the floats of the model, in hundredths
FloatDomain == {0, 56, 70, 75, 150, 700, 1250, 1800, 2500, 4500, 4520, 6000,
                8000, 9850, 12000}
                \cup {100 * j : j \in 1..16}

\* the texts float() reads as x: the repr, the repr after a blank, and for a
\* whole number also the digits alone or with two decimals
Spellings(x) ==
    {float_repr(x), " " \o float_repr(x)}
    \cup (IF x % 100 = 0
          THEN {NatStr(x \div 100), NatStr(x \div 100) \o ".00"} ELSE {})

\* the spellings of every float of the model
SpellingsOf == [x \in FloatDomain |-> Spellings(x)]

\* float(v): [ok |-> TRUE, v |-> the float] or the exception raised
float(v) ==
    IF v.t # "str" THEN [ok |-> FALSE, exc |-> "TypeError"]
    ELSE IF \E x \in FloatDomain : v.s \in SpellingsOf[x]
         THEN [ok |-> TRUE,
               v |-> PyFloat(CHOOSE x \in FloatDomain : v.s \in SpellingsOf[x])]
         ELSE [ok |-> FALSE, exc |-> "ValueError_float"]

(* ------------------------------------------------------------- the files *)

\* open(path, mode): what the file holds once it is open
open(file, mode) == IF mode = "w" THEN <<>> ELSE file

\* the key DictReader files surplus cells under (restkey = None)
RestKey == "<None>"

\* position of name k in the header fn
IndexOf(fn, k) == CHOOSE i \in 1..Len(fn) : fn[i] = k

\* the dict DictReader makes of one line under the field names fn
RowDict(fn, line) ==
    [k \in Range(fn) \cup (IF Len(line) > Len(fn) THEN {RestKey} ELSE {}) |->
        IF k = RestKey THEN PyList(SubSeq(line, Len(fn) + 1, Len(line)))
        ELSE IF IndexOf(fn, k) <= Len(line) THEN PyStr(line[IndexOf(fn, k)])
        ELSE PyNone]

NonBlank(line) == line # <<>>

RECURSIVE MapRows(_, _)
MapRows(fn, lines) ==
    IF lines = <<>> THEN <<>>
    ELSE <<RowDict(fn, Head(lines))>> \o MapRows(fn, Tail(lines))

\* csv.DictReader(f): the field names (None for an empty file) and the rows
DictReader(file) ==
    IF file = <<>> THEN [fieldnames |-> PyNone, rows |-> <<>>]
    ELSE [fieldnames |-> PyList(Head(file)),
          rows |-> MapRows(Head(file), SelectSeq(Tail(file), NonBlank))]

\* the text the csv writer puts in a cell
CellText(v) == CASE v.t = "None" -> ""
                 [] v.t = "str" -> v.s
                 [] v.t = "float" -> float_repr(v.x)

\* DictWriter._dict_to_list: the line of a row, if all its keys are fields
WrongFields(fn, row) == (DOMAIN row) \ Range(fn)
DictToList(fn, row) ==
    [i \in 1..Len(fn) |->
        IF fn[i] \in DOMAIN row THEN CellText(row[fn[i]]) ELSE ""]

\* writer.writerows(rows) on a file holding lines: the rows go out in order
\* until one holds a key that is no field; what went out before stays
RECURSIVE WriteRows(_, _, _)
WriteRows(fn, rows, lines) ==
    IF rows = <<>> THEN [lines |-> lines, outcome |-> "ok"]
    ELSE IF WrongFields(fn, Head(rows)) # {}
         THEN [lines |-> lines, outcome |-> "ValueError_fieldnames"]
         ELSE WriteRows(fn, Tail(rows), Append(lines, DictToList(fn, Head(rows))))

\* writer.writeheader(), writer.writerows(rows): the lines that go out and
\* how the writing ends
DictWriter(fn, rows) == WriteRows(fn, rows, <<fn>>)

\* the file after lines went out from its start: a file that got longer
\* since it was opened keeps what lies beyond them
Flush(file, lines) == lines \o SubSeq(file, Len(lines) + 1, Len(file))

(* ------------------------------------------------------- write_timeseries *)

\* the ten keyword arguments, in the order of the signature
OutputFields == <<"total_heat_load", "total_power", "hp1_load", "hp1_power",
                  "hp2_load", "hp2_power", "pump1_load", "pump1_power",
                  "pump2_load", "pump2_power">>

\* all ten left at their default
NoPatch == [f \in Range(OutputFields) |-> PyNone]

Supplied(patch) == {f \in DOMAIN patch : patch[f] # PyNone}

\* the loop body without its tests: every argument is assigned, None too
RECURSIVE AssignFields_NoNoneCheck(_, _, _)
AssignFields_NoNoneCheck(row, patch, fields) ==
    IF fields = <<>> THEN row
    ELSE AssignFields_NoNoneCheck(
             [k \in (DOMAIN row) \cup {Head(fields)} |->
                 IF k = Head(fields) THEN patch[k] ELSE row[k]],
             patch, Tail(fields))

\* the loop body filling in only the fields that hold nothing yet
RECURSIVE AssignFields_OnlyEmpty(_, _, _)
AssignFields_OnlyEmpty(row, patch, fields) ==
    IF fields = <<>> THEN row
    ELSE LET f == Head(fields)
             empty == f \notin DOMAIN row \/ row[f] \in {PyNone, PyStr("")}
             r == IF patch[f] # PyNone /\ empty
                  THEN [k \in (DOMAIN row) \cup {f} |->
                            IF k = f THEN patch[f] ELSE row[k]]
                  ELSE row
         IN AssignFields_OnlyEmpty(r, patch, Tail(fields))

\* the ten "if x is not None: row['x'] = x" of the loop body
RECURSIVE AssignFields(_, _, _)
AssignFields(row, patch, fields) ==
    IF fields = <<>> THEN row
    ELSE LET f == Head(fields)
             r == IF patch[f] # PyNone
                  THEN [k \in (DOMAIN row) \cup {f} |->
                            IF k = f THEN patch[f] ELSE row[k]]
                  ELSE row
         IN AssignFields(r, patch, Tail(fields))

Min(S) == CHOOSE i \in S : \A j \in S : i <= j

\* positions of the rows whose 'time' equals the timestamp
Matching(rows, timestamp) ==
    {i \in 1..Len(rows) : rows[i]["time"] = PyStr(timestamp)}

\* the loop without its break: every row of the timestamp is updated
UpdateRows_NoBreak(rows, timestamp, patch) ==
    [found |-> Matching(rows, timestamp) # {},
     rows |-> [i \in 1..Len(rows) |->
                  IF i \in Matching(rows, timestamp)
                  THEN AssignFields(rows[i], patch, OutputFields)
                  ELSE rows[i]]]

\* the loop followed by an insert: a timestamp no row carries gets a row
UpdateRows_Upsert(rows, timestamp, patch) ==
    IF Matching(rows, timestamp) = {}
    THEN [found |-> TRUE,
          rows |-> Append(rows, AssignFields([k \in {"time"} |-> PyStr(timestamp)],
                                             patch, OutputFields))]
    ELSE [found |-> TRUE,
          rows |-> [rows EXCEPT ![Min(Matching(rows, timestamp))] =
                        AssignFields(@, patch, OutputFields)]]

\* for row in rows: if row['time'] == timestamp: ...; found = True; break
UpdateRows(rows, timestamp, patch) ==
    IF Matching(rows, timestamp) = {} THEN [found |-> FALSE, rows |-> rows]
    ELSE [found |-> TRUE,
          rows |-> [rows EXCEPT ![Min(Matching(rows, timestamp))] =
                        AssignFields(@, patch, OutputFields)]]

\* write_timeseries inserting a row for a timestamp that no row carries
write_timeseries_Upsert(file, timestamp, patch) ==
    IF file = <<>>
    THEN [csv |-> file, outcome |-> "ValueError_not_found", value |-> PyNone]
    ELSE LET w == DictWriter(Head(file),
                             UpdateRows_Upsert(DictReader(file).rows,
                                               timestamp, patch).rows)
         IN [csv |-> Flush(open(file, "w"), w.lines),
             outcome |-> w.outcome, value |-> PyNone]

\* write_timeseries(csv_file, timestamp, ...): the file it leaves and how it
\* ends
write_timeseries(file, timestamp, patch) ==
    LET reader == DictReader(open(file, "r"))
        upd == UpdateRows(reader.rows, timestamp, patch)
    IN IF ~upd.found
       THEN [csv |-> file, outcome |-> "ValueError_not_found", value |-> PyNone]
       ELSE LET w == DictWriter(reader.fieldnames.l, upd.rows)
            IN [csv |-> Flush(open(file, "w"), w.lines),
                outcome |-> w.outcome, value |-> PyNone]

(* -------------------------------------------------------- read_timeseries *)

\* the loop without its return inside: the last row of the timestamp wins
RECURSIVE ScanRows_Last(_, _)
ScanRows_Last(rows, timestamp) ==
    IF rows = <<>> THEN [outcome |-> "ValueError_not_found", value |-> PyNone]
    ELSE IF rows[Len(rows)]["time"] = PyStr(timestamp)
         THEN [outcome |-> "ok",
               value |-> <<float(rows[Len(rows)]["t2"]).v,
                           float(rows[Len(rows)]["F2"]).v>>]
         ELSE ScanRows_Last(SubSeq(rows, 1, Len(rows) - 1), timestamp)

\* the loop of read_timeseries over the rows, in file order
RECURSIVE ScanRows(_, _)
ScanRows(rows, timestamp) ==
    IF rows = <<>> THEN [outcome |-> "ValueError_not_found", value |-> PyNone]
    ELSE IF Head(rows)["time"] = PyStr(timestamp)
         THEN LET t2 == float(Head(rows)["t2"])
                  F2 == float(Head(rows)["F2"])
              IN IF ~t2.ok THEN [outcome |-> t2.exc, value |-> PyNone]
                 ELSE IF ~F2.ok THEN [outcome |-> F2.exc, value |-> PyNone]
                 ELSE [outcome |-> "ok", value |-> <<t2.v, F2.v>>]
         ELSE ScanRows(Tail(rows), timestamp)

\* read_timeseries opening the file for writing as well
read_timeseries_OpenW(file, timestamp) ==
    [csv |-> open(file, "w"),
     outcome |-> ScanRows(DictReader(file).rows, timestamp).outcome,
     value |-> ScanRows(DictReader(file).rows, timestamp).value]

read_timeseries(file, timestamp) ==
    LET f == open(file, "r")
        r == ScanRows(DictReader(f).rows, timestamp)
    IN [csv |-> f, outcome |-> r.outcome, value |-> r.value]

read_timeseries_t2(file, timestamp) ==
    LET r == read_timeseries(file, timestamp)
    IN IF r.outcome = "ok" THEN [r EXCEPT !.value = r.value[1]] ELSE r

read_timeseries_f2(file, timestamp) ==
    LET r == read_timeseries(file, timestamp)
    IN IF r.outcome = "ok" THEN [r EXCEPT !.value = r.value[2]] ELSE r

(* --------------------------------------------------- the configuration *)

\* d[k] of a JSON object: the value, or KeyError
Has(d, k) == k \in DOMAIN d

\* get_equipment_count with dict.get and a default in place of the lookups
get_equipment_count_Default(doc) ==
    IF ~Has(doc, "heat_pumps") \/ ~Has(doc.heat_pumps, "count")
    THEN [config |-> doc, outcome |-> "ok", value |-> 0]
    ELSE [config |-> doc, outcome |-> "ok", value |-> doc.heat_pumps.count]

get_equipment_count(doc) ==
    LET f == open(doc, "r")
    IN IF ~Has(f, "heat_pumps") \/ ~Has(f.heat_pumps, "count")
       THEN [config |-> f, outcome |-> "KeyError", value |-> PyNone]
       ELSE [config |-> f, outcome |-> "ok", value |-> f.heat_pumps.count]

\* get_hp_characteristics returning the load limits the other way round
get_hp_characteristics_Swapped(doc) ==
    IF ~(/\ Has(doc, "heat_pumps")
         /\ {"characteristics", "supply_temperature", "load_limits"}
                \subseteq DOMAIN doc.heat_pumps
         /\ Has(doc.heat_pumps.characteristics, "power_consumption")
         /\ {"min", "max"} \subseteq DOMAIN doc.heat_pumps.load_limits)
    THEN [config |-> doc, outcome |-> "KeyError", value |-> PyNone]
    ELSE [config |-> doc, outcome |-> "ok",
          value |-> doc.heat_pumps.characteristics.power_consumption \o
                    <<doc.heat_pumps.supply_temperature,
                      doc.heat_pumps.load_limits.max,
                      doc.heat_pumps.load_limits.min>>]

get_hp_characteristics(doc) ==
    LET f == open(doc, "r")
    IN IF \/ ~Has(f, "heat_pumps")
          \/ ~Has(f.heat_pumps, "characteristics")
          \/ ~Has(f.heat_pumps.characteristics, "power_consumption")
          \/ ~Has(f.heat_pumps, "supply_temperature")
          \/ ~Has(f.heat_pumps, "load_limits")
          \/ ~Has(f.heat_pumps.load_limits, "min")
          \/ ~Has(f.heat_pumps.load_limits, "max")
       THEN [config |-> f, outcome |-> "KeyError", value |-> PyNone]
       ELSE LET hp == f.heat_pumps
                powers == hp.characteristics.power_consumption
                t_supply == hp.supply_temperature
                load_min == hp.load_limits.min
                load_max == hp.load_limits.max
            IN [config |-> f, outcome |-> "ok",
                value |-> powers \o <<t_supply, load_min, load_max>>]

get_pump_characteristics(doc) ==
    LET f == open(doc, "r")
    IN IF ~Has(f, "pumps") \/ ~Has(f.pumps, "rated_power")
       THEN [config |-> f, outcome |-> "KeyError", value |-> PyNone]
       ELSE [config |-> f, outcome |-> "ok", value |-> f.pumps.rated_power]

(* ------------------------------------------------------------ the inputs *)

\* the timestamp of the test call, one an hour later, and a prefix of the
\* first that no row carries
T1 == "202512071900"
T2 == "202512072000"
RowTimestamps == {T1, T2}
QueryTimestamps == RowTimestamps \cup {"2025120719"}

FullHeader == <<"time", "t2", "F2">> \o OutputFields
\* a file made before the per-unit columns existed
TotalsHeader == <<"time", "t2", "F2", "total_heat_load", "total_power">>
\* the same thirteen columns in another order
PermHeader == <<"F2", "time", "t2">> \o Reverse(OutputFields)
Headers == {FullHeader, TotalsHeader, PermHeader}

\* the input pair of the row at position i, as the file spells it
InputPairs == << <<"45.0", "120.0">>, <<"7", "98.5">>,
                 <<" 12.5", "120">>, <<"45.00", "60.0">> >>
InputPair(i) == InputPairs[((i - 1) % Len(InputPairs)) + 1]

\* short: the input cells only; empty: every output cell empty; filled: every
\* output cell holds a value; long: filled, and one cell too many
ShapesOf(h) == IF h = FullHeader THEN {"short", "empty", "filled", "long"}
               ELSE IF h = PermHeader THEN {"short", "filled"}
               ELSE {"filled"}

FieldPos(f) == CHOOSE j \in 1..Len(OutputFields) : OutputFields[j] = f

CellOf(c, ts, i, shape) ==
    CASE c = "time" -> ts
      [] c = "t2" -> InputPair(i)[1]
      [] c = "F2" -> InputPair(i)[2]
      [] OTHER -> IF shape = "empty" THEN "" ELSE float_repr(100 * FieldPos(c))

MkLine(h, ts, i, shape) ==
    LET full == [j \in 1..Len(h) |-> CellOf(h[j], ts, i, shape)]
    IN CASE shape = "short" -> SubSeq(full, 1, 3)
         [] shape = "long" -> Append(full, "x")
         [] OTHER -> full

LinesAt(h, i) ==
    {MkLine(h, ts, i, s) : ts \in RowTimestamps, s \in ShapesOf(h)}
    \cup (IF h = FullHeader THEN {<<>>} ELSE {})

RECURSIVE TablesOfLen(_, _)
TablesOfLen(h, n) ==
    IF n = 0 THEN {<<h>>}
    ELSE {Append(t, l) : t \in TablesOfLen(h, n - 1), l \in LinesAt(h, n)}

\* every file of at most MaxRows lines under one of the headers, and the
\* empty file
Tables == {<<>>} \cup
          UNION {TablesOfLen(h, n) : h \in Headers, n \in 0..MaxRows}

\* the row of the spec's example, then a second row of the same timestamp
DefaultTable == <<FullHeader, MkLine(FullHeader, T1, 1, "empty"),
                  MkLine(FullHeader, T1, 2, "filled")>>

\* the values a call supplies: 0.0 is a value, not a missing argument
SuppliedValues == {PyFloat(0), PyFloat(8000)}

\* the k fields that follow position i in the signature, wrapping around
Window(i, k) == {OutputFields[((i + j - 1) % Len(OutputFields)) + 1] :
                     j \in 0..(k - 1)}

PatchOf(fields, v) ==
    [f \in Range(OutputFields) |-> IF f \in fields THEN v ELSE PyNone]

\* the arguments of the call in the module's self-test
MainTestPatch ==
    [f \in Range(OutputFields) |->
        CASE f = "total_heat_load" -> PyNone
          [] f = "total_power" -> PyFloat(4520)
          [] f = "hp1_load" -> PyFloat(8000)
          [] f = "hp1_power" -> PyFloat(2500)
          [] f = "hp2_load" -> PyFloat(6000)
          [] f = "hp2_power" -> PyFloat(1800)
          [] f = "pump1_load" -> PyFloat(75)
          [] f = "pump1_power" -> PyFloat(150)
          [] f = "pump2_load" -> PyFloat(56)
          [] f = "pump2_power" -> PyFloat(70)]

Patches ==
    {PatchOf(Window(i, k), v) :
        i \in 1..Len(OutputFields), k \in 0..MaxSupplied, v \in SuppliedValues}
    \cup {MainTestPatch}

\* a configuration document
Doc(count, powers, t_supply, load_min, load_max, rated_power) ==
    [heat_pumps |->
        [count |-> count,
         characteristics |-> [power_consumption |-> powers],
         supply_temperature |-> t_supply,
         load_limits |-> [min |-> load_min, max |-> load_max]],
     pumps |-> [rated_power |-> rated_power]]

DefaultDoc == Doc(2, <<0, 52, 98, 141, 187, 240>>, 7, 20, 100, 15)

ValidDocs == {DefaultDoc,
              Doc(1, <<30, 30, 45, 60, 75, 90>>, 12, 0, 80, 22),
              Doc(3, <<240, 187, 141, 98, 52, 0>>, 5, 100, 20, 7)}

Without(d, k) == [x \in (DOMAIN d) \ {k} |-> d[x]]

\* the documents a valid one turns into when one key is taken out
Pruned(d) ==
    {Without(d, "heat_pumps"), Without(d, "pumps"),
     [d EXCEPT !.pumps = Without(@, "rated_power")]}
    \cup {[d EXCEPT !.heat_pumps = Without(@, k)] :
            k \in {"count", "characteristics", "supply_temperature",
                   "load_limits"}}
    \cup {[d EXCEPT !.heat_pumps.characteristics = Without(@, "power_consumption")]}
    \cup {[d EXCEPT !.heat_pumps.load_limits = Without(@, k)] : k \in {"min", "max"}}

Configs == ValidDocs \cup UNION {Pruned(d) : d \in ValidDocs}

(* ------------------------------------------------------------- the calls *)

NoCall == [op |-> "none", timestamp |-> "", patch |-> NoPatch,
           outcome |-> "ok", value |-> PyNone]

NoWriters == <<>>

Init ==
    /\ \/ csv \in Tables /\ config = DefaultDoc
       \/ csv = DefaultTable /\ config \in Configs
    /\ budget = 1
    /\ ret = NoCall
    /\ old = [csv |-> csv, config |-> config]
    /\ start = old
    /\ log = <<>>
    /\ writers = NoWriters
    /\ overlap = FALSE

\* a reader of the configuration returns r
ConfigCall(op, r) ==
    /\ ret.op # "write_timeseries"
    /\ ret' = [op |-> op, timestamp |-> "", patch |-> NoPatch,
               outcome |-> r.outcome, value |-> r.value]
    /\ old' = [csv |-> csv, config |-> config]
    /\ config' = r.config
    /\ UNCHANGED <<csv, start, log, budget, writers, overlap>>

\* a reader of the time series returns r
SeriesCall(op, timestamp, r) ==
    /\ ret.op # "write_timeseries"
    /\ ret' = [op |-> op, timestamp |-> timestamp, patch |-> NoPatch,
               outcome |-> r.outcome, value |-> r.value]
    /\ old' = [csv |-> csv, config |-> config]
    /\ csv' = r.csv
    /\ UNCHANGED <<config, start, log, budget, writers, overlap>>

GetEquipmentCount ==
    ConfigCall("get_equipment_count", get_equipment_count(config))

GetHpCharacteristics ==
    ConfigCall("get_hp_characteristics", get_hp_characteristics(config))

GetPumpCharacteristics ==
    ConfigCall("get_pump_characteristics", get_pump_characteristics(config))

ReadTimeseries ==
    \E timestamp \in QueryTimestamps :
        SeriesCall("read_timeseries", timestamp, read_timeseries(csv, timestamp))

ReadTimeseriesT2 ==
    \E timestamp \in QueryTimestamps :
        SeriesCall("read_timeseries_t2", timestamp,
                   read_timeseries_t2(csv, timestamp))

ReadTimeseriesF2 ==
    \E timestamp \in QueryTimestamps :
        SeriesCall("read_timeseries_f2", timestamp,
                   read_timeseries_f2(csv, timestamp))

WriteTimeseries ==
    /\ ret.op \in {"none", "write_timeseries"}
    /\ Len(log) < budget
    /\ \E timestamp \in QueryTimestamps, patch \in Patches :
          \E r \in {write_timeseries(csv, timestamp, patch)} :
             /\ ret' = [op |-> "write_timeseries", timestamp |-> timestamp,
                        patch |-> patch, outcome |-> r.outcome,
                        value |-> r.value]
             /\ old' = [csv |-> csv, config |-> config]
             /\ csv' = r.csv
             /\ log' = Append(log, [timestamp |-> timestamp, patch |-> patch,
                                    outcome |-> r.outcome, before |-> csv])
             /\ UNCHANGED <<config, start, budget, writers, overlap>>

Next ==
    \/ GetEquipmentCount
    \/ ReadTimeseries
    \/ ReadTimeseriesT2
    \/ ReadTimeseriesF2
    \/ GetHpCharacteristics
    \/ GetPumpCharacteristics
    \/ WriteTimeseries

\* one caller whose calls follow one another: any number of reads, or one
\* write
Spec == Init /\ [][Next]_vars

\* tables on which two writes follow one another: rows of one timestamp, a
\* short row, a blank line, a row too long, columns missing, columns moved
TwiceTables ==
    {<<FullHeader, MkLine(FullHeader, T1, 1, "short"),
       MkLine(FullHeader, T1, 2, "filled"), MkLine(FullHeader, T2, 3, "empty")>>,
     <<FullHeader, MkLine(FullHeader, T2, 1, "empty"), <<>>,
       MkLine(FullHeader, T1, 2, "filled")>>,
     <<FullHeader, MkLine(FullHeader, T1, 1, "filled"),
       MkLine(FullHeader, T2, 2, "long"), MkLine(FullHeader, T2, 3, "short")>>,
     <<TotalsHeader, MkLine(TotalsHeader, T2, 1, "filled"),
       MkLine(TotalsHeader, T1, 2, "filled")>>,
     <<PermHeader, MkLine(PermHeader, T1, 1, "short"),
       MkLine(PermHeader, T2, 2, "filled")>>}

InitTwice ==
    /\ csv \in TwiceTables
    /\ config = DefaultDoc
    /\ budget = 2
    /\ ret = NoCall
    /\ old = [csv |-> csv, config |-> config]
    /\ start = old
    /\ log = <<>>
    /\ writers = NoWriters
    /\ overlap = FALSE

\* one caller: any number of reads, or two writes one after the other
SpecTwice == InitTwice /\ [][Next]_vars

(* ------------------------------------------------------ two writers *)

\* the calls of the two writers
RaceTables ==
    {DefaultTable,
     <<FullHeader, MkLine(FullHeader, T1, 1, "short"),
       MkLine(FullHeader, T2, 2, "empty")>>,
     <<TotalsHeader, MkLine(TotalsHeader, T1, 1, "filled"),
       MkLine(TotalsHeader, T2, 2, "filled")>>}

RacePatches == {PatchOf({"hp1_load"}, PyFloat(8000)),
                PatchOf({"hp1_load"}, PyFloat(0)),
                PatchOf({"total_power"}, PyFloat(8000)),
                MainTestPatch}

Writers == {1, 2}

InitRace ==
    /\ csv \in RaceTables
    /\ config = DefaultDoc
    /\ budget = 0
    /\ ret = NoCall
    /\ old = [csv |-> csv, config |-> config]
    /\ start = old
    /\ log = <<>>
    /\ writers \in [Writers ->
                      {[pc |-> "idle", timestamp |-> ts, patch |-> p,
                        fieldnames |-> PyNone, rows |-> <<>>, before |-> <<>>] :
                          ts \in QueryTimestamps, p \in RacePatches}]
    /\ overlap = FALSE

Running(w) == writers[w].pc \notin {"idle", "done"}

Returned(w, outcome) ==
    log' = Append(log, [timestamp |-> writers[w].timestamp,
                        patch |-> writers[w].patch, outcome |-> outcome,
                        before |-> writers[w].before])

\* with open(csv_file, 'r'): reader = csv.DictReader(f); rows = list(reader)
OpenRead(w) ==
    /\ writers[w].pc = "idle"
    /\ \E reader \in {DictReader(open(csv, "r"))} :
          writers' = [writers EXCEPT ![w].pc = "read",
                                     ![w].fieldnames = reader.fieldnames,
                                     ![w].rows = reader.rows,
                                     ![w].before = csv]
    /\ overlap' = (overlap \/ \E o \in Writers \ {w} : Running(o))
    /\ UNCHANGED <<csv, config, ret, old, start, log, budget>>

\* the loop over the rows, and the raise when no row matched
Update(w) ==
    /\ writers[w].pc = "read"
    /\ \E upd \in {UpdateRows(writers[w].rows, writers[w].timestamp,
                              writers[w].patch)} :
          IF upd.found
          THEN /\ writers' = [writers EXCEPT ![w].pc = "updated",
                                             ![w].rows = upd.rows]
               /\ UNCHANGED log
          ELSE /\ writers' = [writers EXCEPT ![w].pc = "done"]
               /\ Returned(w, "ValueError_not_found")
    /\ UNCHANGED <<csv, config, ret, old, start, budget, overlap>>

\* open(csv_file, 'w'): the file is cut to nothing
OpenWrite(w) ==
    /\ writers[w].pc = "updated"
    /\ csv' = open(csv, "w")
    /\ writers' = [writers EXCEPT ![w].pc = "open"]
    /\ UNCHANGED <<config, ret, old, start, log, budget, overlap>>

\* writeheader(), writerows(rows), and the close that puts the lines in the
\* file
WriteClose(w) ==
    /\ writers[w].pc = "open"
    /\ \E wr \in {DictWriter(writers[w].fieldnames.l, writers[w].rows)} :
          /\ csv' = Flush(csv, wr.lines)
          /\ Returned(w, wr.outcome)
    /\ writers' = [writers EXCEPT ![w].pc = "done"]
    /\ UNCHANGED <<config, ret, old, start, budget, overlap>>

NextRace ==
    \E w \in Writers :
        \/ OpenRead(w)
        \/ Update(w)
        \/ OpenWrite(w)
        \/ WriteClose(w)

\* two processes, each making one write_timeseries call on the same file,
\* their steps interleaved in any way
SpecRace == InitRace /\ [][NextRace]_vars

(* ------------------------------------------------ properties of one call *)

ReadOps == {"get_equipment_count", "read_timeseries", "read_timeseries_t2",
            "read_timeseries_f2", "get_hp_characteristics",
            "get_pump_characteristics"}

\* the outcomes the specification calls NotFoundError
NotFound == {"ValueError_not_found", "KeyError"}

\* what a cell of the table reads as after a rewrite that leaves it alone
Kept(v) == PyStr(CellText(v))

\* the rows of table a are those of table b, except that in row m the fields
\* the patch supplies hold the supplied values; Same(v) is what a field left
\* alone must hold if it held v
FrameOf(b, a, m, patch, Same(_)) ==
    /\ a.fieldnames = b.fieldnames
    /\ Len(a.rows) = Len(b.rows)
    /\ \A i \in 1..Len(b.rows) :
          /\ DOMAIN a.rows[i] = DOMAIN b.rows[i]
          /\ \A k \in DOMAIN b.rows[i] :
                a.rows[i][k] =
                    IF i = m /\ k \in Supplied(patch)
                    THEN PyStr(float_repr(patch[k].x))
                    ELSE Same(b.rows[i][k])

Unchanged(v) == v

WriteReturnedOk == ret.op = "write_timeseries" /\ ret.outcome = "ok"

\* C1 as stated: a successful write leaves the header, the number and order
\* of the rows and every field of every row as they were, except the supplied
\* fields of the first row of that timestamp
C1_FrameExact ==
    WriteReturnedOk =>
        FrameOf(DictReader(old.csv), DictReader(csv),
                Min(Matching(DictReader(old.csv).rows, ret.timestamp)),
                ret.patch, Unchanged)

\* C1 amended: a successful write leaves the header, the number and order of
\* the rows and the text of every field of every row as they were, except the
\* supplied fields of the first row of that timestamp, which hold the supplied
\* values; a field that a row shorter than the header lacked reads as the
\* empty text afterwards
C1_FrameText ==
    WriteReturnedOk =>
        FrameOf(DictReader(old.csv), DictReader(csv),
                Min(Matching(DictReader(old.csv).rows, ret.timestamp)),
                ret.patch, Kept)

\* a successful write of some field to a timestamp that two rows carry, in a
\* table that has a row shorter than the header
C1_Witness ==
    /\ WriteReturnedOk
    /\ Supplied(ret.patch) # {}
    /\ Cardinality(Matching(DictReader(old.csv).rows, ret.timestamp)) >= 2
    /\ \E i \in 2..Len(old.csv) : Len(old.csv[i]) < Len(old.csv[1])

\* C2: a write to a timestamp that no row carries ends in the not-found
\* error and leaves the file as it was, lines and all
C2_AbsentTimestamp ==
    (/\ ret.op = "write_timeseries"
     /\ Matching(DictReader(old.csv).rows, ret.timestamp) = {})
    => /\ ret.outcome = "ValueError_not_found"
       /\ ret.outcome \in NotFound
       /\ csv = old.csv

\* a write that supplies fields to an absent timestamp of a table with rows
C2_Witness ==
    /\ ret.op = "write_timeseries"
    /\ Supplied(ret.patch) # {}
    /\ DictReader(old.csv).rows # <<>>
    /\ Matching(DictReader(old.csv).rows, ret.timestamp) = {}
    /\ ret.outcome = "ValueError_not_found"

\* the pair read_timeseries owes for the rows and the timestamp
FirstPair(rows, timestamp) ==
    <<float(rows[Min(Matching(rows, timestamp))]["t2"]).v,
      float(rows[Min(Matching(rows, timestamp))]["F2"]).v>>

\* C3: read_timeseries returns the t2 and F2 of the first row, in file order,
\* whose time is the timestamp, and ends in the not-found error, returning
\* nothing, when there is none
C3_FirstMatch ==
    ret.op = "read_timeseries" =>
        IF Matching(DictReader(old.csv).rows, ret.timestamp) = {}
        THEN ret.outcome = "ValueError_not_found" /\ ret.value = PyNone
        ELSE /\ ret.outcome = "ok"
             /\ ret.value = FirstPair(DictReader(old.csv).rows, ret.timestamp)

\* a read of a timestamp that two rows carry
C3_Witness ==
    /\ ret.op = "read_timeseries"
    /\ ret.outcome = "ok"
    /\ Cardinality(Matching(DictReader(old.csv).rows, ret.timestamp)) >= 2

HpFieldsPresent(doc) ==
    /\ Has(doc, "heat_pumps")
    /\ {"characteristics", "supply_temperature", "load_limits"}
           \subseteq DOMAIN doc.heat_pumps
    /\ Has(doc.heat_pumps.characteristics, "power_consumption")
    /\ {"min", "max"} \subseteq DOMAIN doc.heat_pumps.load_limits

\* C5: with the heat-pump fields present get_hp_characteristics returns nine
\* elements: the six power points in document order, then the supply
\* temperature, the load minimum and the load maximum
C5_NineTuple ==
    (ret.op = "get_hp_characteristics" /\ HpFieldsPresent(old.config)) =>
        /\ ret.outcome = "ok"
        /\ Len(ret.value) = 9
        /\ \A i \in 1..6 :
              ret.value[i] =
                  old.config.heat_pumps.characteristics.power_consumption[i]
        /\ ret.value[7] = old.config.heat_pumps.supply_temperature
        /\ ret.value[8] = old.config.heat_pumps.load_limits.min
        /\ ret.value[9] = old.config.heat_pumps.load_limits.max

\* the characteristics of a document whose load minimum exceeds its maximum
C5_Witness ==
    /\ ret.op = "get_hp_characteristics"
    /\ ret.outcome = "ok"
    /\ old.config.heat_pumps.load_limits.min >
           old.config.heat_pumps.load_limits.max

\* C6: get_equipment_count returns the value at heat_pumps.count, and ends in
\* the not-found error when heat_pumps or its count is absent
C6_Count ==
    ret.op = "get_equipment_count" =>
        IF Has(old.config, "heat_pumps") /\ Has(old.config.heat_pumps, "count")
        THEN ret.outcome = "ok" /\ ret.value = old.config.heat_pumps.count
        ELSE ret.outcome \in NotFound /\ ret.value = PyNone

\* the count of a document whose heat_pumps has no count
C6_Witness ==
    /\ ret.op = "get_equipment_count"
    /\ Has(old.config, "heat_pumps")
    /\ ~Has(old.config.heat_pumps, "count")
    /\ ret.outcome = "KeyError"

\* C7: while the calls of a run are reads, the table and the configuration
\* document are what they were when the run started
C7_ReadsKeep ==
    ret.op \in ReadOps => csv = start.csv /\ config = start.config

\* a read that failed, on a table with rows
C7_Witness ==
    /\ ret.op \in ReadOps
    /\ ret.outcome # "ok"
    /\ Len(csv) > 1
    /\ csv = start.csv /\ config = start.config

\* C9 as stated: a write that ends in an error leaves the file as it was
C9_ErrorKeeps ==
    (ret.op = "write_timeseries" /\ ret.outcome # "ok") => csv = old.csv

(* ----------------------------------------------- properties of two writes *)

TwoWrites == Len(log) = 2
BothOk == log[1].outcome = "ok" /\ log[2].outcome = "ok"

\* the first row of the timestamp, in the table the first write found
FirstRow(timestamp) == Min(Matching(DictReader(log[1].before).rows, timestamp))

\* row m of the file holds the value the patch supplies for field f
Holds(file, m, f, patch) ==
    DictReader(file).rows[m][f] = PyStr(float_repr(patch[f].x))

\* C4 as stated: the same write made twice in succession leaves the file the
\* first one left, and ends the second time as it ended the first
C4_Idempotent ==
    (/\ TwoWrites
     /\ log[1].timestamp = log[2].timestamp
     /\ log[1].patch = log[2].patch)
    => /\ csv = log[2].before
       /\ log[2].outcome = log[1].outcome

\* the two writes touch different timestamps, or different fields of one
Apart(a, b) ==
    \/ a.timestamp # b.timestamp
    \/ Supplied(a.patch) \cap Supplied(b.patch) = {}

\* the file two writes leave when made in the other order
Swapped(a, b) ==
    write_timeseries(write_timeseries(a.before, b.timestamp, b.patch).csv,
                     a.timestamp, a.patch).csv

\* C10: after two successful writes in succession every field the later one
\* supplied holds its value, every field only the earlier one supplied holds
\* the earlier value, and two writes to different timestamps or to different
\* fields leave the file they leave in the other order
C10_Compose ==
    (TwoWrites /\ BothOk) =>
        /\ \A f \in Supplied(log[2].patch) :
              Holds(csv, FirstRow(log[2].timestamp), f, log[2].patch)
        /\ \A f \in Supplied(log[1].patch) :
              (log[1].timestamp # log[2].timestamp
                   \/ f \notin Supplied(log[2].patch))
              => Holds(csv, FirstRow(log[1].timestamp), f, log[1].patch)
        /\ Apart(log[1], log[2]) => csv = Swapped(log[1], log[2])

\* two successful writes of different values to one field of one timestamp,
\* the earlier one supplying a second field as well
C10_Witness ==
    /\ TwoWrites /\ BothOk
    /\ log[1].timestamp = log[2].timestamp
    /\ \E f \in Supplied(log[1].patch) \cap Supplied(log[2].patch) :
          log[1].patch[f] # log[2].patch[f]
    /\ Supplied(log[1].patch) \ Supplied(log[2].patch) # {}

(* ------------------------------------------------ properties of two writers *)

BothReturned == \A w \in Writers : writers[w].pc = "done"

\* every field the call supplied holds its value in the first row of its
\* timestamp
Present(file, call) ==
    \A f \in Supplied(call.patch) :
        Holds(file, Min(Matching(DictReader(start.csv).rows, call.timestamp)),
              f, call.patch)

\* C8: when the two calls ran one after the other, both succeeded and they
\* touch different timestamps or different fields, the file holds the update
\* of each
C8_SerialKeepsBoth ==
    (/\ BothReturned /\ ~overlap
     /\ TwoWrites /\ BothOk
     /\ Apart(log[1], log[2]))
    => Present(csv, log[1]) /\ Present(csv, log[2])

\* both calls read the file before either rewrote it, both succeeded, and
\* the file holds the update of the one that rewrote last and has lost the
\* update of the other
C8_LostUpdate ==
    /\ BothReturned /\ overlap
    /\ TwoWrites /\ BothOk
    /\ Apart(log[1], log[2])
    /\ log[1].before = start.csv /\ log[2].before = start.csv
    /\ Supplied(log[1].patch) # {}
    /\ Present(csv, log[2])
    /\ ~Present(csv, log[1])

\* the calls ran one after the other: the file is the one the two calls
\* leave when each is made in one step
SerialIsAtomic ==
    (BothReturned /\ ~overlap) =>
        csv = write_timeseries(
                  write_timeseries(start.csv, log[1].timestamp,
                                   log[1].patch).csv,
                  log[2].timestamp, log[2].patch).csv

====
